---------------------------- MODULE Spec2Model ----------------------------
(***************************************************************************)
(* A model of drivers/idle/intel_idle.c, the MWAIT idle driver, and of the *)
(* breakpoint traps of arch/arm/kernel/kgdb.c.  The module holds several   *)
(* specifications over one set of variables:                               *)
(*   SpecPolicy  sequential calls of the substate selection policy         *)
(*   SpecRace    choose_tunable_substate interleaved, statement by         *)
(*               statement, with writes of the power_policy parameter      *)
(*   SpecIdle    intel_idle on each core, interleaved with the events      *)
(*               of the other cores and of the hardware                    *)
(*   SpecLife    intel_idle_cpuidle_devices_init / _uninit as whole        *)
(*               operations                                                *)
(*   SpecLoad    intel_idle_init, with its probe, on any processor and     *)
(*               with any parameters, and intel_idle_exit                  *)
(*   SpecModule  the loaded module: intel_idle on the registered cores,    *)
(*               writes of power_policy, unload                            *)
(*   SpecHotplug load and unload while cores go offline and come online    *)
(*   SpecKgdb    breakpoint traps and the commands of the debugger         *)
(***************************************************************************)
EXTENDS Integers, Sequences, FiniteSets, TLC

(***************************************************************************)
(* Bounds of the model.                                                    *)
(***************************************************************************)
\* cores of the lifecycle specification are 0..NumCpus-1
NumCpus == 3
\* cores that run intel_idle, or the policy, concurrently: 0..NumIdleCpus-1
NumIdleCpus == 1
\* cores that run choose_tunable_substate concurrently: 0..NumRaceCpus-1
NumRaceCpus == 2
\* the power_policy parameter takes the values -PolicySpan .. 15+PolicySpan
PolicySpan == 5
\* the policy is called with cstate arguments 0..MaxCstateArg
MaxCstateArg == 8

(***************************************************************************)
(* Program constants.                                                      *)
(***************************************************************************)
MWAIT_SUBSTATE_MASK == 15
MWAIT_CSTATE_MASK == 15
MWAIT_SUBSTATE_SIZE == 4
MWAIT_MAX_NUM_CSTATES == 8
\* errno values returned by the driver
EPERM == 1
EIO == 5
ENOMEM == 12
ENODEV == 19

(***************************************************************************)
(* Machine arithmetic.  unsigned int and int are 32 bits wide; the model   *)
(* checker's integers are 32 bits wide and signed, so an unsigned word is  *)
(* kept as its two 16-bit halves and a bitmap as the set of its set bits.  *)
(***************************************************************************)
Pow2(n) == 2 ^ n

\* the unsigned word hi * 2^16 + lo
Word(lo, hi) == [lo |-> lo, hi |-> hi]

\* (w >> n) & 0xF for a shift n that is a multiple of 4 below 32
shr_nibble(w, n) ==
  IF n < 16 THEN (w.lo \div Pow2(n)) % 16 ELSE (w.hi \div Pow2(n - 16)) % 16

\* (unsigned int)x / 16 for an integer x with -2^31 < x < 2^31: a negative x
\* converts to 2^32 + x, and (2^32 + x) / 16 = 2^28 + floor(x / 16)
udiv16(x) == IF x >= 0 THEN x \div 16 ELSE Pow2(28) + (x \div 16)

\* mask & (1 << n) is non-zero
bit_set(mask, n) == n \in mask

(***************************************************************************)
(* The idle state catalogs.  A row keeps what the driver reads of it.      *)
(***************************************************************************)
EmptyRow ==
  [name |-> "", driver_data |-> 0, exit_latency |-> 0, power_usage |-> 0,
   target_residency |-> 0, enter |-> "NULL"]

Row(n, d, lat, pw, res, e) ==
  [name |-> n, driver_data |-> d, exit_latency |-> lat, power_usage |-> pw,
   target_residency |-> res, enter |-> e]

nehalem_cstates ==
  [i \in 0..(MWAIT_MAX_NUM_CSTATES - 1) |->
     CASE i = 1 -> Row("NHM-C1", 0, 3, 1000, 6, "intel_idle")
       [] i = 2 -> Row("NHM-C3", 16, 20, 500, 80, "intel_idle")
       [] i = 3 -> Row("NHM-C6", 32, 200, 350, 800, "intel_idle")
       [] OTHER -> EmptyRow]

atom_cstates ==
  [i \in 0..(MWAIT_MAX_NUM_CSTATES - 1) |->
     CASE i = 1 -> Row("ATM-C1", 0, 1, 1000, 4, "intel_idle")
       [] i = 2 -> Row("ATM-C2", 16, 20, 500, 80, "intel_idle")
       [] i = 4 -> Row("ATM-C4", 48, 100, 250, 400, "intel_idle")
       [] i = 6 -> Row("ATM-C6", 64, 200, 150, 800, "NULL")
       [] OTHER -> EmptyRow]

\* the table cpuidle_state_table points to
state_table(t) ==
  IF t = "nehalem_cstates" THEN nehalem_cstates ELSE atom_cstates

VARIABLES
  max_cstate,                   \* module parameter, 0 disables the driver
  power_policy,                 \* module parameter, an int
  substates,                    \* the MWAIT substate word, an unsigned int
  choose_substate,              \* the policy function selected by probe
  lapic_timer_reliable_states,  \* the set bits n: the LAPIC timer runs in Cn
  cpuidle_state_table,          \* the catalog selected by probe
  last,                         \* the operation performed last, with its
                                \* arguments and its result
  cts,                          \* per core: the call of
                                \* choose_tunable_substate in progress
  pc,                           \* per core: the statement of intel_idle
                                \* the core is at, "idle" outside a call
  loc,                          \* per core: the argument and the locals of
                                \* the call of intel_idle
  irqs_enabled,                 \* per core: the interrupt flag
  need_resched,                 \* per core: TIF_NEED_RESCHED of the idle
                                \* thread, the word the monitor watches
  monitor,                      \* per core: the address monitor hardware
  irq_pending,                  \* per core: an interrupt awaits delivery
  broadcast,                    \* per core: the broadcast timer ticks for
                                \* the core
  trace,                        \* per core: what the current call of
                                \* intel_idle did so far, in order
  intel_idle_cpuidle_devices,   \* the per-cpu pointer: "NULL", "allocated"
                                \* or "freed" (dangling)
  percpu,                       \* per possible core: the cpuidle_device in
                                \* the storage allocated last
  cpuidle_devices,              \* the cores with a device registered with
                                \* the cpuidle framework
  cpu_online,                   \* the online cores
  fault,                        \* the invalid memory accesses performed
  cpuidle_curr_driver,          \* the driver registered with the cpuidle
                                \* framework: "none", "intel_idle", "other"
  module_state,                 \* "unloaded", "live" after module_init
                                \* returned 0, "failed" after it returned an
                                \* error, "exited" after module_exit
  compiled_break,               \* kgdb: the static flag of line 106
  ARM_pc,                       \* kgdb: linux_regs->ARM_pc of the trap being
                                \* handled, an unsigned long
  kgdb_fn                       \* kgdb: the undef hook that is inside
                                \* kgdb_handle_exception, "none" outside

cfgVars ==
  <<max_cstate, power_policy, substates, choose_substate,
    lapic_timer_reliable_states, cpuidle_state_table>>

raceVars == <<cts>>

idleVars ==
  <<pc, loc, irqs_enabled, need_resched, monitor, irq_pending, broadcast,
    trace>>

lifeVars ==
  <<intel_idle_cpuidle_devices, percpu, cpuidle_devices, cpu_online, fault,
    cpuidle_curr_driver, module_state>>

kgdbVars == <<compiled_break, ARM_pc, kgdb_fn>>

vars == <<cfgVars, last, raceVars, idleVars, lifeVars, kgdbVars>>

\* the possible cores
Cpus == 0..(NumCpus - 1)

\* a cpuidle_device as alloc_percpu returns it: zeroed
ZeroDev == [state_count |-> 0, states |-> <<>>, cpu |-> 0, registered |-> FALSE]

\* the driver before intel_idle_cpuidle_devices_init ran, all cores online
LifeQuiet ==
  /\ intel_idle_cpuidle_devices = "NULL"
  /\ percpu = [c \in Cpus |-> ZeroDev]
  /\ cpuidle_devices = {}
  /\ cpu_online = Cpus
  /\ fault = {}
  /\ cpuidle_curr_driver = "intel_idle"
  /\ module_state = "live"

\* no breakpoint trap is being handled
KgdbQuiet ==
  /\ compiled_break = 0
  /\ ARM_pc = Word(0, 0)
  /\ kgdb_fn = "none"

\* cores that run intel_idle
IdleCpus == 0..(NumIdleCpus - 1)

\* the locals of intel_idle outside a call
NoLocals == [idx |-> 0, eax |-> 0, nr_entry |-> FALSE, cstate |-> 0]

\* no core is inside intel_idle
IdleQuiet ==
  /\ pc = [c \in IdleCpus |-> "idle"]
  /\ loc = [c \in IdleCpus |-> NoLocals]
  /\ irqs_enabled = [c \in IdleCpus |-> TRUE]
  /\ need_resched = [c \in IdleCpus |-> FALSE]
  /\ monitor = [c \in IdleCpus |-> "off"]
  /\ irq_pending = [c \in IdleCpus |-> FALSE]
  /\ broadcast = [c \in IdleCpus |-> FALSE]
  /\ trace = [c \in IdleCpus |-> <<>>]

\* cores that call the policy concurrently
RaceCpus == 0..(NumRaceCpus - 1)

\* no call of choose_tunable_substate in progress
NoCall == [pc |-> "idle"]

RaceQuiet == cts = [c \in RaceCpus |-> NoCall]

(***************************************************************************)
(* The substate selection policy.                                          *)
(***************************************************************************)
\* power_policy clamped to 0..15 instead of masked
mask_policy_clamp(p) == IF p < 0 THEN 0 ELSE IF p > 15 THEN 15 ELSE p

\* power_policy &= 0xF on an int
mask_policy(p) == p % 16

\* cstate &= 7; num_substates = (substates >> (cstate * 4)) & MASK
num_substates_of(subs, cstate) ==
  shr_nibble(subs, (cstate % 8) * MWAIT_SUBSTATE_SIZE)

\* substate_choice with the count in place of the count less one
substate_choice_count(p1, p2, n) == udiv16(p1 + (p2 + 1) * n)

\* substate_choice without the bias of power_policy + 1
substate_choice_nobias(p1, p2, n) == udiv16(p1 * (n - 1))

\* the expression of substate_choice; p1 and p2 are the two reads of
\* power_policy, n is num_substates.  The operands convert to unsigned int,
\* and the sum modulo 2^32 is the conversion of the integer sum
substate_choice(p1, p2, n) == udiv16(p1 + (p2 + 1) * (n - 1))

\* choose_tunable_substate(cstate) called with power_policy = p and
\* substates = subs: the value returned and the value left in power_policy
choose_tunable_substate(cstate, p, subs) ==
  LET pp == mask_policy(p)
      n == num_substates_of(subs, cstate)
  IN  [ret |-> IF n <= 1 THEN 0 ELSE substate_choice(pp, pp, n),
       power_policy |-> pp]

choose_zero_substate(cstate, p, subs) ==
  [ret |-> 0, power_policy |-> p]

\* a call through the choose_substate pointer
call_choose_substate(f, cstate, p, subs) ==
  IF f = "choose_tunable_substate"
    THEN choose_tunable_substate(cstate, p, subs)
    ELSE choose_zero_substate(cstate, p, subs)

(***************************************************************************)
(* SpecPolicy: the policy functions called one at a time, and the          *)
(* power_policy parameter written through sysfs (mode 0644) in between.    *)
(***************************************************************************)
PolicyWrites == (0 - PolicySpan)..(15 + PolicySpan)

CstateArgs == 0..MaxCstateArg

\* substate words: every count at every depth, the word of the Nehalem
\* processors, the word with counts 2, 1, 4 at depths 1, 2, 3, and all ones
SubstateWords ==
  {Word(c * Pow2(4 * d), 0) : c \in 0..15, d \in 0..3}
    \cup {Word(0, c * Pow2(4 * d)) : c \in 0..15, d \in 0..3}
    \cup {Word(4384, 0), Word(16672, 0), Word(12576, 0), Word(65535, 65535)}

NoOp == [op |-> "none"]

PolicyInit ==
  /\ max_cstate = MWAIT_MAX_NUM_CSTATES - 1
  /\ power_policy \in PolicyWrites
  /\ substates \in SubstateWords
  /\ choose_substate = "choose_tunable_substate"
  /\ lapic_timer_reliable_states = {1}
  /\ cpuidle_state_table = "nehalem_cstates"
  /\ last = NoOp
  /\ RaceQuiet
  /\ IdleQuiet
  /\ KgdbQuiet
  /\ LifeQuiet

PolicyCall(f, cstate) ==
  LET r == call_choose_substate(f, cstate, power_policy, substates)
  IN  /\ power_policy' = r.power_policy
      /\ last' = [op |-> f, cstate |-> cstate, pp |-> power_policy,
                  ret |-> r.ret]
      /\ UNCHANGED <<max_cstate, substates, choose_substate,
                     lapic_timer_reliable_states, cpuidle_state_table>>
      /\ UNCHANGED <<raceVars, idleVars, lifeVars, kgdbVars>>

ChooseTunable == \E cstate \in CstateArgs :
  PolicyCall("choose_tunable_substate", cstate)

ChooseZero == \E cstate \in CstateArgs :
  PolicyCall("choose_zero_substate", cstate)

\* module_param(power_policy, int, 0644): root writes any int
WritePowerPolicy == \E v \in PolicyWrites :
  /\ power_policy' = v
  /\ last' = [op |-> "write_power_policy", value |-> v]
  /\ UNCHANGED <<max_cstate, substates, choose_substate,
                 lapic_timer_reliable_states, cpuidle_state_table>>
  /\ UNCHANGED <<raceVars, idleVars, lifeVars, kgdbVars>>

PolicyNext == ChooseTunable \/ ChooseZero \/ WritePowerPolicy

SpecPolicy == PolicyInit /\ [][PolicyNext]_vars

(***************************************************************************)
(* Claims about the policy.                                                *)
(***************************************************************************)
PolicyOps == {"choose_tunable_substate", "choose_zero_substate"}

\* the count packed in word w for depth d: digit d of w in base 16
PackedCount(w, d) ==
  LET digits == [k \in 0..7 |->
                   IF k < 4 THEN (w.lo \div (16 ^ k)) % 16
                            ELSE (w.hi \div (16 ^ (k - 4))) % 16]
  IN  digits[d]

\* the depth the policy looks up for argument cstate: its low 3 bits
LowBits3(cstate) == CHOOSE d \in 0..7 : \E q \in 0..(MaxCstateArg + 1) : cstate = 8 * q + d

\* the value in 0..15 with the low 4 bits of the int p
LowBits4(p) == CHOOSE q \in 0..15 : \E k \in (0 - PolicySpan - 2)..(PolicySpan + 2) : p = 16 * k + q

\* C7: a call of choose_tunable_substate made with power_policy in 0..15
\* returns 0 when the depth's substate count c is at most 1, and otherwise
\* a value in 0..c-1.
C7_TunableRange ==
  (last.op = "choose_tunable_substate" /\ last.pp \in 0..15) =>
    LET c == PackedCount(substates, LowBits3(last.cstate))
    IN  IF c <= 1 THEN last.ret = 0 ELSE last.ret \in 0..(c - 1)

\* a call with power_policy 15 and a count above 2 chose the deepest substate
C7_Witness ==
  /\ last.op = "choose_tunable_substate"
  /\ last.pp = 15
  /\ PackedCount(substates, LowBits3(last.cstate)) > 2
  /\ last.ret = PackedCount(substates, LowBits3(last.cstate)) - 1

\* C8: with p the low 4 bits of power_policy and c the count of the depth,
\* a call of choose_tunable_substate with c > 1 returns
\* floor((p + (p+1)*(c-1)) / 16); so p = 0 gives 0, p = 15 gives c-1, a
\* smaller p never gives a larger result, and counts 2, 1, 4 at depths
\* 1, 2, 3 with power_policy 7 give 0, 0, 1.
C8_TunableValue ==
  last.op = "choose_tunable_substate" =>
    LET c == PackedCount(substates, LowBits3(last.cstate))
        p == LowBits4(last.pp)
        x == p + (p + 1) * (c - 1)
    IN  /\ c > 1 => (16 * last.ret <= x /\ x < 16 * (last.ret + 1))
        /\ (c > 1 /\ p = 0) => last.ret = 0
        /\ (c > 1 /\ p = 15) => last.ret = c - 1
        /\ \A q \in 0..15 : q <= p =>
              choose_tunable_substate(last.cstate, q, substates).ret
                <= last.ret
        /\ (substates = Word(16672, 0) /\ last.pp = 7
              /\ last.cstate \in 1..3) =>
              last.ret = <<0, 0, 1>>[last.cstate]

\* the scenario: counts 2, 1, 4, power_policy 7, depth 3 selects substate 1
C8_Witness ==
  /\ last.op = "choose_tunable_substate"
  /\ substates = Word(16672, 0)
  /\ last.pp = 7
  /\ last.cstate = 3
  /\ last.ret = 1

\* a step that is a call of one of the two policy functions
IsPolicyCall == last'.op \in PolicyOps /\ last' # last

RaceWrites == {0 - 1, 7, 16, 15 + PolicySpan}

RaceWords == {Word(16672, 0), Word(4384, 0), Word(65535, 65535)}

RaceCstates == 1..3

RaceInit ==
  /\ max_cstate = MWAIT_MAX_NUM_CSTATES - 1
  /\ power_policy \in RaceWrites
  /\ substates \in RaceWords
  /\ choose_substate = "choose_tunable_substate"
  /\ lapic_timer_reliable_states = {1}
  /\ cpuidle_state_table = "nehalem_cstates"
  /\ last = NoOp
  /\ RaceQuiet
  /\ IdleQuiet
  /\ KgdbQuiet
  /\ LifeQuiet

RaceFrame ==
  UNCHANGED <<max_cstate, substates, choose_substate,
              lapic_timer_reliable_states, cpuidle_state_table, idleVars,
              lifeVars, kgdbVars>>

\* core c calls choose_tunable_substate(cstate)
CtsCall(c) == \E cstate \in RaceCstates :
  /\ cts[c].pc = "idle"
  /\ cts' = [cts EXCEPT ![c] = [pc |-> "load", cstate |-> cstate]]
  /\ UNCHANGED <<power_policy, last>>
  /\ RaceFrame

\* power_policy &= 0xF: the load
CtsLoad(c) ==
  /\ cts[c].pc = "load"
  /\ cts' = [cts EXCEPT ![c] =
               [pc |-> "store", cstate |-> cts[c].cstate,
                reg |-> power_policy]]
  /\ UNCHANGED <<power_policy, last>>
  /\ RaceFrame

\* power_policy &= 0xF: the store of the masked value
CtsStore(c) ==
  /\ cts[c].pc = "store"
  /\ power_policy' = mask_policy(cts[c].reg)
  /\ cts' = [cts EXCEPT ![c] =
               [pc |-> "count", cstate |-> cts[c].cstate,
                reg |-> mask_policy(cts[c].reg)]]
  /\ UNCHANGED last
  /\ RaceFrame

\* num_substates is read, and 0 returned when it is at most 1
CtsCount(c) ==
  LET n == num_substates_of(substates, cts[c].cstate)
  IN  /\ cts[c].pc = "count"
      /\ cts' = [cts EXCEPT ![c] =
                   IF n <= 1
                     THEN [pc |-> "return", cstate |-> cts[c].cstate,
                           n |-> n, ret |-> 0]
                     ELSE [pc |-> "read1", cstate |-> cts[c].cstate,
                           n |-> n, reg |-> cts[c].reg]]
      /\ UNCHANGED <<power_policy, last>>
      /\ RaceFrame

\* the first use of power_policy in the expression
CtsRead1(c) ==
  /\ cts[c].pc = "read1"
  /\ \E p1 \in {cts[c].reg, power_policy} : cts' = [cts EXCEPT ![c] =
               [pc |-> "read2", cstate |-> cts[c].cstate, n |-> cts[c].n,
                reg |-> cts[c].reg, p1 |-> p1]]
  /\ UNCHANGED <<power_policy, last>>
  /\ RaceFrame

\* the second use of power_policy, and the division
CtsRead2(c) ==
  /\ cts[c].pc = "read2"
  /\ \E p2 \in {cts[c].reg, power_policy} : cts' = [cts EXCEPT ![c] =
               [pc |-> "return", cstate |-> cts[c].cstate, n |-> cts[c].n,
                ret |-> substate_choice(cts[c].p1, p2, cts[c].n)]]
  /\ UNCHANGED <<power_policy, last>>
  /\ RaceFrame

\* the call returns
CtsReturn(c) ==
  /\ cts[c].pc = "return"
  /\ cts' = [cts EXCEPT ![c] = NoCall]
  /\ UNCHANGED <<power_policy, last>>
  /\ RaceFrame

\* a write of the parameter through sysfs, at any moment
RaceWritePowerPolicy == \E v \in RaceWrites :
  /\ power_policy' = v
  /\ UNCHANGED <<last, cts>>
  /\ RaceFrame

RaceNext ==
  \/ \E c \in RaceCpus :
       \/ CtsCall(c)
       \/ CtsLoad(c)
       \/ CtsStore(c)
       \/ CtsCount(c)
       \/ CtsRead1(c)
       \/ CtsRead2(c)
       \/ CtsReturn(c)
  \/ RaceWritePowerPolicy

SpecRace == RaceInit /\ [][RaceNext]_vars

\* C10: however writes of power_policy interleave with the accesses that
\* choose_tunable_substate makes, a call returns 0 for a count of at most 1
\* and otherwise a substate in 0..c-1, c being the count of its depth.
C10_RaceInRange ==
  \A c \in RaceCpus :
    cts[c].pc = "return" =>
      LET n == PackedCount(substates, LowBits3(cts[c].cstate))
      IN  IF n <= 1 THEN cts[c].ret = 0 ELSE cts[c].ret \in 0..(n - 1)

(***************************************************************************)
(* The rows intel_idle_cpuidle_devices_init copies into a core's record:   *)
(* the loop over cstate of lines 370-404.                                  *)
(***************************************************************************)
\* the loop storing each row in front of the rows stored before
RECURSIVE walk_cstates_prepend(_, _, _, _, _)
walk_cstates_prepend(cstate, table, subs, maxc, acc) ==
  IF cstate >= MWAIT_MAX_NUM_CSTATES THEN acc
  ELSE IF cstate > maxc THEN acc
  ELSE IF shr_nibble(subs, cstate * MWAIT_SUBSTATE_SIZE) = 0
    THEN walk_cstates_prepend(cstate + 1, table, subs, maxc, acc)
  ELSE IF table[cstate].enter = "NULL"
    THEN walk_cstates_prepend(cstate + 1, table, subs, maxc, acc)
  ELSE walk_cstates_prepend(cstate + 1, table, subs, maxc,
                            <<table[cstate]>> \o acc)

\* the loop without the test of the enter function
RECURSIVE walk_cstates_keep_disabled(_, _, _, _, _)
walk_cstates_keep_disabled(cstate, table, subs, maxc, acc) ==
  IF cstate >= MWAIT_MAX_NUM_CSTATES THEN acc
  ELSE IF cstate > maxc THEN acc
  ELSE IF shr_nibble(subs, cstate * MWAIT_SUBSTATE_SIZE) = 0
    THEN walk_cstates_keep_disabled(cstate + 1, table, subs, maxc, acc)
  ELSE walk_cstates_keep_disabled(cstate + 1, table, subs, maxc,
                                  Append(acc, table[cstate]))

RECURSIVE walk_cstates(_, _, _, _, _)
walk_cstates(cstate, table, subs, maxc, acc) ==
  IF cstate >= MWAIT_MAX_NUM_CSTATES THEN acc
  ELSE IF cstate > maxc THEN acc
  ELSE IF shr_nibble(subs, cstate * MWAIT_SUBSTATE_SIZE) = 0
    THEN walk_cstates(cstate + 1, table, subs, maxc, acc)
  ELSE IF table[cstate].enter = "NULL"
    THEN walk_cstates(cstate + 1, table, subs, maxc, acc)
  ELSE walk_cstates(cstate + 1, table, subs, maxc,
                    Append(acc, table[cstate]))

\* dev->states[1 .. state_count-1] after the loop
dev_states(t, subs, maxc) == walk_cstates(1, state_table(t), subs, maxc, <<>>)

(***************************************************************************)
(* SpecIdle: intel_idle, one statement at a time on each core, with the    *)
(* other cores setting the core's TIF_NEED_RESCHED and interrupts          *)
(* arriving at any moment.                                                 *)
(***************************************************************************)
\* the statement after the first need_resched() check, line 236
next_after_check1_always(nr) == "L238"

next_after_check1(nr) == IF nr THEN "L244" ELSE "L238"

\* the statement after the second need_resched() check, line 240
next_after_check2_always(nr) == "L241"

next_after_check2(nr) == IF nr THEN "L244" ELSE "L241"

\* the test of lines 227 and 251 with the bit of the shallower state
timer_stops_shallower(mask, cstate) == ~bit_set(mask, cstate - 1)

\* !(lapic_timer_reliable_states & (1 << cstate)), lines 227 and 251
timer_stops(mask, cstate) == ~bit_set(mask, cstate)

\* the interrupt flag left as it is
local_irq_enable_missing(c) == irqs_enabled

\* local_irq_enable() on core c, line 249
local_irq_enable(c) == [irqs_enabled EXCEPT ![c] = TRUE]

\* the configurations intel_idle_probe leaves: catalog, policy and mask
ProbedConfigs ==
  {[table |-> "nehalem_cstates", policy |-> "choose_tunable_substate",
    mask |-> {1}],
   [table |-> "nehalem_cstates", policy |-> "choose_tunable_substate",
    mask |-> {}],
   [table |-> "nehalem_cstates", policy |-> "choose_tunable_substate",
    mask |-> 0..31],
   [table |-> "atom_cstates", policy |-> "choose_zero_substate",
    mask |-> {1, 2}]}

\* the substate word with counts 2, 1, 1, 2 at depths 1, 2, 3, 4 (0x21120)
IdleWords == {Word(4384, 2)}

IdleInit ==
  /\ max_cstate = MWAIT_MAX_NUM_CSTATES - 1
  /\ power_policy = 7
  /\ substates \in IdleWords
  /\ \E cfg \in ProbedConfigs :
       /\ choose_substate = cfg.policy
       /\ lapic_timer_reliable_states = cfg.mask
       /\ cpuidle_state_table = cfg.table
  /\ last = NoOp
  /\ RaceQuiet
  /\ IdleQuiet
  /\ KgdbQuiet
  /\ LifeQuiet

IdleFrame ==
  UNCHANGED <<max_cstate, substates, choose_substate,
              lapic_timer_reliable_states, cpuidle_state_table, last,
              raceVars, lifeVars, kgdbVars>>

\* core c is at statement l, goes to statement m and records event e
Goto(c, l, m, e) ==
  /\ pc[c] = l
  /\ pc' = [pc EXCEPT ![c] = m]
  /\ trace' = [trace EXCEPT ![c] = Append(@, e)]

\* the idle loop calls intel_idle on core c, interrupts disabled, with a
\* state of the core's record: the row at index idx of the catalog
IdleEnter(c) ==
  /\ pc[c] = "idle"
  /\ \E idx \in 1..(MWAIT_MAX_NUM_CSTATES - 1) :
       /\ \E k \in DOMAIN dev_states(cpuidle_state_table, substates,
                                      max_cstate) :
            dev_states(cpuidle_state_table, substates, max_cstate)[k]
              = state_table(cpuidle_state_table)[idx]
       /\ loc' = [loc EXCEPT ![c] =
                    [idx |-> idx,
                     eax |-> state_table(cpuidle_state_table)[idx].driver_data,
                     nr_entry |-> need_resched[c], cstate |-> 0]]
  /\ pc' = [pc EXCEPT ![c] = "L221"]
  /\ trace' = [trace EXCEPT ![c] = <<>>]
  /\ irqs_enabled' = [irqs_enabled EXCEPT ![c] = FALSE]
  /\ UNCHANGED <<power_policy, need_resched, monitor, irq_pending, broadcast>>
  /\ IdleFrame

\* line 221: cstate = ((eax >> MWAIT_SUBSTATE_SIZE) & MWAIT_CSTATE_MASK) + 1
hint_cstate(eax) ==
  ((eax \div Pow2(MWAIT_SUBSTATE_SIZE)) % (MWAIT_CSTATE_MASK + 1)) + 1

\* lines 215-223: cstate from the hint, the substate added to the hint
IdleHint(c) ==
  LET cstate == hint_cstate(loc[c].eax)
      r == call_choose_substate(choose_substate, cstate, power_policy,
                                substates)
  IN  /\ pc[c] = "L221"
      /\ pc' = [pc EXCEPT ![c] = "L225"]
      /\ loc' = [loc EXCEPT ![c] =
                   [idx |-> loc[c].idx, eax |-> loc[c].eax + r.ret,
                    nr_entry |-> loc[c].nr_entry, cstate |-> cstate]]
      /\ power_policy' = r.power_policy
      /\ UNCHANGED <<trace, irqs_enabled, need_resched, monitor, irq_pending,
                     broadcast>>
      /\ IdleFrame

\* line 225: local_irq_disable()
IdleIrqDisable(c) ==
  /\ Goto(c, "L225", "L227", "irq_disable")
  /\ irqs_enabled' = [irqs_enabled EXCEPT ![c] = FALSE]
  /\ UNCHANGED <<loc, power_policy, need_resched, monitor, irq_pending,
                 broadcast>>
  /\ IdleFrame

\* lines 227-228: CLOCK_EVT_NOTIFY_BROADCAST_ENTER
IdleBroadcastEnter(c) ==
  /\ pc[c] = "L227"
  /\ pc' = [pc EXCEPT ![c] = "L230"]
  /\ IF timer_stops(lapic_timer_reliable_states, loc[c].cstate)
       THEN /\ broadcast' = [broadcast EXCEPT ![c] = TRUE]
            /\ trace' = [trace EXCEPT ![c] = Append(@, "broadcast_enter")]
       ELSE UNCHANGED <<broadcast, trace>>
  /\ UNCHANGED <<loc, power_policy, irqs_enabled, need_resched, monitor,
                 irq_pending>>
  /\ IdleFrame

\* line 230: kt_before = ktime_get_real()
IdleKtBefore(c) ==
  /\ Goto(c, "L230", "L236", "kt_before")
  /\ UNCHANGED <<loc, power_policy, irqs_enabled, need_resched, monitor,
                 irq_pending, broadcast>>
  /\ IdleFrame

\* line 236: if (!need_resched())
IdleCheck1(c) ==
  /\ Goto(c, "L236", next_after_check1(need_resched[c]),
          IF need_resched[c] THEN "check1_set" ELSE "check1_clear")
  /\ UNCHANGED <<loc, power_policy, irqs_enabled, need_resched, monitor,
                 irq_pending, broadcast>>
  /\ IdleFrame

\* line 238: __monitor(&current_thread_info()->flags, 0, 0)
IdleMonitor(c) ==
  /\ Goto(c, "L238", "L239", "monitor")
  /\ monitor' = [monitor EXCEPT ![c] = "armed"]
  /\ UNCHANGED <<loc, power_policy, irqs_enabled, need_resched, irq_pending,
                 broadcast>>
  /\ IdleFrame

\* line 239: smp_mb()
IdleMb(c) ==
  /\ Goto(c, "L239", "L240", "mb")
  /\ UNCHANGED <<loc, power_policy, irqs_enabled, need_resched, monitor,
                 irq_pending, broadcast>>
  /\ IdleFrame

\* line 240: if (!need_resched())
IdleCheck2(c) ==
  /\ Goto(c, "L240", next_after_check2(need_resched[c]),
          IF need_resched[c] THEN "check2_set" ELSE "check2_clear")
  /\ UNCHANGED <<loc, power_policy, irqs_enabled, need_resched, monitor,
                 irq_pending, broadcast>>
  /\ IdleFrame

\* line 241: __mwait(eax, ecx) is issued; the core waits while the monitor
\* is armed and no interrupt is pending (ecx = 1: break on interrupt)
IdleMwait(c) ==
  /\ Goto(c, "L241", "waiting", "mwait")
  /\ UNCHANGED <<loc, power_policy, irqs_enabled, need_resched, monitor,
                 irq_pending, broadcast>>
  /\ IdleFrame

\* the wait ends: the monitored word was written since the monitor was
\* armed, or an interrupt is pending
IdleWake(c) ==
  /\ pc[c] = "waiting"
  /\ monitor[c] # "armed" \/ irq_pending[c]
  /\ pc' = [pc EXCEPT ![c] = "L244"]
  /\ monitor' = [monitor EXCEPT ![c] = "off"]
  /\ UNCHANGED <<trace, loc, power_policy, irqs_enabled, need_resched,
                 irq_pending, broadcast>>
  /\ IdleFrame

\* lines 244-247: kt_after = ktime_get_real()
IdleKtAfter(c) ==
  /\ Goto(c, "L244", "L249", "kt_after")
  /\ UNCHANGED <<loc, power_policy, irqs_enabled, need_resched, monitor,
                 irq_pending, broadcast>>
  /\ IdleFrame

\* line 249: local_irq_enable(); a pending interrupt is taken
IdleIrqEnable(c) ==
  /\ Goto(c, "L249", "L251", "irq_enable")
  /\ irqs_enabled' = local_irq_enable(c)
  /\ irq_pending' = [irq_pending EXCEPT ![c] = FALSE]
  /\ UNCHANGED <<loc, power_policy, need_resched, monitor, broadcast>>
  /\ IdleFrame

\* lines 251-252: CLOCK_EVT_NOTIFY_BROADCAST_EXIT
IdleBroadcastExit(c) ==
  /\ pc[c] = "L251"
  /\ pc' = [pc EXCEPT ![c] = "L254"]
  /\ IF timer_stops(lapic_timer_reliable_states, loc[c].cstate)
       THEN /\ broadcast' = [broadcast EXCEPT ![c] = FALSE]
            /\ trace' = [trace EXCEPT ![c] = Append(@, "broadcast_exit")]
       ELSE UNCHANGED <<broadcast, trace>>
  /\ UNCHANGED <<loc, power_policy, irqs_enabled, need_resched, monitor,
                 irq_pending>>
  /\ IdleFrame

\* line 254: return usec_delta
IdleReturn(c) ==
  /\ pc[c] = "L254"
  /\ pc' = [pc EXCEPT ![c] = "idle"]
  /\ trace' = [trace EXCEPT ![c] = <<>>]
  /\ loc' = [loc EXCEPT ![c] = NoLocals]
  /\ UNCHANGED <<power_policy, irqs_enabled, need_resched, monitor,
                 irq_pending, broadcast>>
  /\ IdleFrame

\* another core sets TIF_NEED_RESCHED of core c's idle thread: a store to
\* the monitored word, which triggers an armed monitor
SetNeedResched(c) ==
  /\ ~need_resched[c]
  /\ need_resched' = [need_resched EXCEPT ![c] = TRUE]
  /\ monitor' = [monitor EXCEPT ![c] =
                   IF @ = "armed" THEN "triggered" ELSE @]
  /\ UNCHANGED <<pc, loc, trace, power_policy, irqs_enabled, irq_pending,
                 broadcast>>
  /\ IdleFrame

\* out of intel_idle the core reschedules, which clears the flag
ClearNeedResched(c) ==
  /\ pc[c] = "idle"
  /\ need_resched[c]
  /\ need_resched' = [need_resched EXCEPT ![c] = FALSE]
  /\ UNCHANGED <<pc, loc, trace, power_policy, irqs_enabled, monitor,
                 irq_pending, broadcast>>
  /\ IdleFrame

\* an interrupt arrives for core c while it has interrupts disabled
Interrupt(c) ==
  /\ pc[c] # "idle"
  /\ ~irqs_enabled[c]
  /\ ~irq_pending[c]
  /\ irq_pending' = [irq_pending EXCEPT ![c] = TRUE]
  /\ UNCHANGED <<pc, loc, trace, power_policy, irqs_enabled, need_resched,
                 monitor, broadcast>>
  /\ IdleFrame

\* the statements of intel_idle on core c
IdleStep(c) ==
  \/ IdleHint(c)
  \/ IdleIrqDisable(c)
  \/ IdleBroadcastEnter(c)
  \/ IdleKtBefore(c)
  \/ IdleCheck1(c)
  \/ IdleMonitor(c)
  \/ IdleMb(c)
  \/ IdleCheck2(c)
  \/ IdleMwait(c)
  \/ IdleWake(c)
  \/ IdleKtAfter(c)
  \/ IdleIrqEnable(c)
  \/ IdleBroadcastExit(c)
  \/ IdleReturn(c)

IdleNext ==
  \E c \in IdleCpus :
    \/ IdleEnter(c)
    \/ IdleStep(c)
    \/ SetNeedResched(c)
    \/ ClearNeedResched(c)
    \/ Interrupt(c)

SpecIdle == IdleInit /\ [][IdleNext]_vars

(***************************************************************************)
(* Claims about intel_idle.                                                *)
(***************************************************************************)
\* event e is in the trace t
Has(t, e) == \E i \in DOMAIN t : t[i] = e

\* the place of the first e in t
Pos(t, e) == CHOOSE i \in DOMAIN t : t[i] = e /\ \A j \in 1..(i - 1) : t[j] # e

\* how many times e is in t
Count(t, e) == Cardinality({i \in DOMAIN t : t[i] = e})

\* e is in t, and before the first f if f is in t
Before(t, e, f) == Has(t, f) => (Has(t, e) /\ Pos(t, e) < Pos(t, f))

\* C3: a core is never blocked in the wait instruction with its
\* reschedule-pending flag set and nothing pending that ends the wait,
\* wherever in intel_idle the other core set the flag.
C3_NoLostWakeup ==
  \A c \in IdleCpus :
    ~(/\ pc[c] = "waiting"
      /\ need_resched[c]
      /\ monitor[c] = "armed"
      /\ ~irq_pending[c])

\* the flag was set while the core was in the wait, and the wait can end
\* without an interrupt
C3_Witness ==
  \E c \in IdleCpus :
    /\ pc[c] = "waiting"
    /\ need_resched[c]
    /\ monitor[c] = "triggered"
    /\ ~irq_pending[c]

\* C4: the wait instruction is issued only right after a first check that
\* read clear, the monitor arm, the barrier and a second check that read
\* clear, in this order; a call entered with the flag set arms no monitor,
\* issues no wait, and is never blocked on its way to the return.
C4_WaitOrder ==
  \A c \in IdleCpus :
    LET t == trace[c]
    IN  /\ pc[c] = "waiting" => Has(t, "mwait")
        /\ Has(t, "mwait") =>
              /\ Count(t, "mwait") = 1
              /\ Pos(t, "mwait") > 4
              /\ t[Pos(t, "mwait") - 4] = "check1_clear"
              /\ t[Pos(t, "mwait") - 3] = "monitor"
              /\ t[Pos(t, "mwait") - 2] = "mb"
              /\ t[Pos(t, "mwait") - 1] = "check2_clear"
              /\ Count(t, "check1_clear") = 1
              /\ Count(t, "monitor") = 1
              /\ Count(t, "mb") = 1
              /\ Count(t, "check2_clear") = 1
        /\ loc[c].nr_entry =>
              /\ ~Has(t, "monitor")
              /\ ~Has(t, "mwait")
              /\ pc[c] # "waiting"
              /\ pc[c] # "idle" => ENABLED IdleStep(c)

\* a call issued the wait and came to its return
C4_Witness ==
  \E c \in IdleCpus :
    /\ pc[c] = "L254"
    /\ Has(trace[c], "mwait")
    /\ ~loc[c].nr_entry

\* C5: interrupts are disabled from the start timestamp to the end
\* timestamp, and enabled when intel_idle returns, on every path.
C5_IrqWindow ==
  \A c \in IdleCpus :
    /\ pc[c] \in {"L230", "L236", "L238", "L239", "L240", "L241", "waiting",
                   "L244"} => ~irqs_enabled[c]
    /\ pc[c] = "L254" =>
          /\ irqs_enabled[c]
          /\ Has(trace[c], "irq_enable")
          /\ Before(trace[c], "kt_after", "irq_enable")
          /\ Before(trace[c], "kt_before", "kt_after")
          /\ Before(trace[c], "irq_disable", "kt_before")

\* a call that skipped the wait at the re-check, with the broadcast
\* engaged, is about to return
C5_Witness ==
  \E c \in IdleCpus :
    /\ pc[c] = "L254"
    /\ Has(trace[c], "check2_set")
    /\ Has(trace[c], "broadcast_enter")
    /\ irqs_enabled[c]

\* C6: with d the catalog depth of the state entered, broadcast-enter is
\* notified exactly when bit d of the mask is clear, before the start
\* timestamp and the wait; broadcast-exit is notified exactly when enter
\* was, once, after the end timestamp, and has been when the call returns.
C6_BroadcastPaired ==
  \A c \in IdleCpus :
    LET t == trace[c]
        clear == loc[c].idx \notin lapic_timer_reliable_states
    IN  /\ Has(t, "broadcast_enter") => clear
        /\ Has(t, "kt_before") => (Has(t, "broadcast_enter") <=> clear)
        /\ Has(t, "broadcast_enter") =>
              /\ Count(t, "broadcast_enter") = 1
              /\ Has(t, "kt_before") =>
                    Pos(t, "broadcast_enter") < Pos(t, "kt_before")
              /\ Has(t, "mwait") =>
                    Pos(t, "broadcast_enter") < Pos(t, "mwait")
        /\ (pc[c] = "waiting" /\ clear) => broadcast[c]
        /\ Has(t, "broadcast_exit") =>
              /\ Count(t, "broadcast_exit") = 1
              /\ Has(t, "broadcast_enter")
              /\ Has(t, "kt_after")
              /\ Pos(t, "kt_after") < Pos(t, "broadcast_exit")
        /\ pc[c] = "L254" =>
              /\ Has(t, "broadcast_exit") <=> Has(t, "broadcast_enter")
              /\ ~broadcast[c]

\* a call that skipped the wait at the first check handed the tick over
\* and back
C6_Witness ==
  \E c \in IdleCpus :
    /\ pc[c] = "L254"
    /\ Has(trace[c], "check1_set")
    /\ Has(trace[c], "broadcast_enter")
    /\ Has(trace[c], "broadcast_exit")

(***************************************************************************)
(* The per-core device lifecycle.  The functions are state transformers    *)
(* on a record s: ptr (intel_idle_cpuidle_devices), percpu (the storage),  *)
(* registry (the devices the framework holds), fault (invalid accesses),   *)
(* driver (the driver the framework holds), calls (the calls made to the   *)
(* framework and the allocator, in order) and ret (the value returned).    *)
(***************************************************************************)
Min(S) == CHOOSE x \in S : \A y \in S : x <= y

\* cpuidle_register_device(dev) for the record of core i; ok is whether the
\* framework accepts the device
cpuidle_register_device(s, i, ok) ==
  IF ok
    THEN [s EXCEPT !.percpu[i].registered = TRUE,
                   !.registry = @ \cup {s.percpu[i].cpu},
                   !.calls = Append(@, <<"register", i, TRUE>>)]
    ELSE [s EXCEPT !.calls = Append(@, <<"register", i, FALSE>>)]

\* cpuidle_unregister_device(dev) for the record of core i: a record that
\* is not registered is left alone
cpuidle_unregister_device(s, i) ==
  IF s.percpu[i].registered
    THEN [s EXCEPT !.percpu[i].registered = FALSE,
                   !.registry = @ \ {s.percpu[i].cpu},
                   !.calls = Append(@, <<"unregister", i, TRUE>>)]
    ELSE [s EXCEPT !.calls = Append(@, <<"unregister", i, FALSE>>)]

\* alloc_percpu(struct cpuidle_device): zeroed storage for every possible
\* core, or NULL
alloc_percpu(s, ok) ==
  IF ok
    THEN [s EXCEPT !.ptr = "allocated",
                   !.percpu = [c \in Cpus |-> ZeroDev],
                   !.calls = Append(@, <<"alloc", 0, TRUE>>)]
    ELSE [s EXCEPT !.ptr = "NULL",
                   !.calls = Append(@, <<"alloc", 0, FALSE>>)]

\* free_percpu(ptr): NULL is ignored, a freed pointer is freed again
free_percpu(s) ==
  CASE s.ptr = "allocated" ->
         [s EXCEPT !.ptr = "freed", !.calls = Append(@, <<"free", 0, TRUE>>)]
    [] s.ptr = "freed" ->
         [s EXCEPT !.fault = @ \cup {"double_free"},
                   !.calls = Append(@, <<"free", 0, FALSE>>)]
    [] OTHER -> s

\* the loop of the teardown that unregisters nothing
uninit_loop_none(cpus, s, stale) == s

\* the loop of the teardown that calls the framework for registered
\* records only
RECURSIVE uninit_loop_registered_only(_, _, _)
uninit_loop_registered_only(cpus, s, stale) ==
  IF cpus = {} THEN s
  ELSE LET i == Min(cpus)
           t == IF s.percpu[i].registered
                  THEN cpuidle_unregister_device(s, i)
                  ELSE s
       IN  uninit_loop_registered_only(cpus \ {i}, t, stale)

\* for_each_online_cpu(i) of lines 344-347, in ascending order of i.  With
\* the pointer NULL or dangling the record read is not a record of the
\* driver: stale is whether what is read there looks registered
RECURSIVE uninit_loop(_, _, _)
uninit_loop(cpus, s, stale) ==
  IF cpus = {} THEN s
  ELSE LET i == Min(cpus)
           t == IF s.ptr = "allocated"
                  THEN cpuidle_unregister_device(s, i)
                  ELSE [s EXCEPT !.fault =
                          @ \cup {"invalid_read"}
                            \cup (IF stale THEN {"invalid_unregister"}
                                           ELSE {}),
                          !.calls = Append(@, <<"unregister", i, stale>>)]
       IN  uninit_loop(cpus \ {i}, t, stale)

\* intel_idle_cpuidle_devices_uninit()
intel_idle_cpuidle_devices_uninit(s, online, stale) ==
  free_percpu(uninit_loop(online, s, stale))

\* the failure branch that returns without the teardown
register_failed_no_unwind(s, online) == [s EXCEPT !.ret = 0 - EIO]

\* lines 407-412: cpuidle_register_device failed
register_failed(s, online) ==
  [intel_idle_cpuidle_devices_uninit(s, online, FALSE) EXCEPT !.ret = 0 - EIO]

\* for_each_online_cpu(i) of lines 365-413, in ascending order of i; fail
\* is the set of cores the framework refuses to register
RECURSIVE init_loop(_, _, _, _, _)
init_loop(cpus, s, online, rows, fail) ==
  IF cpus = {} THEN [s EXCEPT !.ret = 0]
  ELSE LET i == Min(cpus)
           filled == [s EXCEPT !.percpu[i] =
                        [state_count |-> 1 + Len(rows), states |-> rows,
                         cpu |-> i, registered |-> FALSE]]
           t == cpuidle_register_device(filled, i, i \notin fail)
       IN  IF i \in fail
             THEN register_failed(t, online)
             ELSE init_loop(cpus \ {i}, t, online, rows, fail)

\* intel_idle_cpuidle_devices_init()
intel_idle_cpuidle_devices_init(s, online, rows, alloc_ok, fail) ==
  LET a == alloc_percpu(s, alloc_ok)
  IN  IF a.ptr = "NULL"
        THEN [a EXCEPT !.ret = 0 - ENOMEM]
        ELSE init_loop(online, a, online, rows, fail)

(***************************************************************************)
(* SpecLife: intel_idle_cpuidle_devices_init and _uninit called as whole   *)
(* operations.  init is called with no storage allocated (module_init      *)
(* runs once per load); uninit is called in any state.  After an invalid   *)
(* memory access nothing more is modelled.                                 *)
(***************************************************************************)
LifeWords ==
  IdleWords
    \cup {Word(16672, 0), Word(4384, 0), Word(0, 0), Word(65535, 65535)}

\* max_cstate is an int parameter; 0 makes probe fail
MaxCstates == {0 - 1} \cup (1..MWAIT_MAX_NUM_CSTATES)

LifeInit ==
  /\ max_cstate \in MaxCstates
  /\ power_policy = 7
  /\ substates \in LifeWords
  /\ \E cfg \in ProbedConfigs :
       /\ choose_substate = cfg.policy
       /\ lapic_timer_reliable_states = cfg.mask
       /\ cpuidle_state_table = cfg.table
  /\ last = NoOp
  /\ RaceQuiet
  /\ IdleQuiet
  /\ KgdbQuiet
  /\ intel_idle_cpuidle_devices = "NULL"
  /\ percpu = [c \in Cpus |-> ZeroDev]
  /\ cpuidle_devices = {}
  /\ cpu_online \in {S \in SUBSET Cpus : 0 \in S}
  /\ fault = {}
  /\ cpuidle_curr_driver = "intel_idle"
  /\ module_state = "live"

\* the lifecycle state as a record, with no call made yet
LifeState ==
  [ptr |-> intel_idle_cpuidle_devices, percpu |-> percpu,
   registry |-> cpuidle_devices, fault |-> fault,
   driver |-> cpuidle_curr_driver, calls |-> <<>>, ret |-> 0]

\* the variables take the lifecycle state r; the operation is recorded
LifeResult(r, op, failed) ==
  /\ intel_idle_cpuidle_devices' = r.ptr
  /\ percpu' = r.percpu
  /\ cpuidle_devices' = r.registry
  /\ fault' = r.fault
  /\ last' = [op |-> op, ret |-> r.ret, before |-> intel_idle_cpuidle_devices,
              failed |-> failed, calls |-> r.calls]
  /\ cpuidle_curr_driver' = r.driver
  /\ UNCHANGED <<cfgVars, raceVars, idleVars, cpu_online, module_state,
                 kgdbVars>>

DevicesInit ==
  /\ fault = {}
  /\ intel_idle_cpuidle_devices # "allocated"
  /\ \E alloc_ok \in BOOLEAN :
     \E fail \in {{}} \cup {{k} : k \in cpu_online} :
       LifeResult(
         intel_idle_cpuidle_devices_init(
           LifeState, cpu_online,
           dev_states(cpuidle_state_table, substates, max_cstate),
           alloc_ok, fail),
         "intel_idle_cpuidle_devices_init", fail)

DevicesUninit ==
  /\ fault = {}
  /\ \E stale \in BOOLEAN :
       LifeResult(
         intel_idle_cpuidle_devices_uninit(LifeState, cpu_online, stale),
         "intel_idle_cpuidle_devices_uninit", {})

LifeNext == DevicesInit \/ DevicesUninit

SpecLife == LifeInit /\ [][LifeNext]_vars

(***************************************************************************)
(* Claims about the lifecycle.                                             *)
(***************************************************************************)
\* the framework or allocator call x was made by the last operation
Called(x) == \E i \in DOMAIN last.calls : last.calls[i] = x

\* C1: when cpuidle_register_device fails for a core inside
\* intel_idle_cpuidle_devices_init, the function returns -EIO and no core
\* is left registered, whichever cores are online and whichever core fails.
C1_AllOrNothing ==
  (/\ last.op = "intel_idle_cpuidle_devices_init"
   /\ \E k \in Cpus : Called(<<"register", k, FALSE>>)) =>
     /\ last.ret = 0 - EIO
     /\ cpuidle_devices = {}
     /\ intel_idle_cpuidle_devices = "freed"
     /\ fault = {}

\* three cores online, the second failed: the first was registered and
\* unregistered again, the third was never registered
C1_Witness ==
  /\ last.op = "intel_idle_cpuidle_devices_init"
  /\ cpu_online = {0, 1, 2}
  /\ Called(<<"register", 0, TRUE>>)
  /\ Called(<<"register", 1, FALSE>>)
  /\ ~Called(<<"register", 2, TRUE>>)
  /\ Called(<<"unregister", 0, TRUE>>)
  /\ cpuidle_devices = {}

\* C2 as stated: intel_idle_cpuidle_devices_uninit, in whatever state it
\* is called (twice in a row, after a failed init, before any init), ends
\* with no core registered and has made no invalid memory access.
C2_TeardownIdempotent ==
  last.op = "intel_idle_cpuidle_devices_uninit" =>
    /\ cpuidle_devices = {}
    /\ fault = {}

\* C2 amended: called with the per-core storage allocated,
\* intel_idle_cpuidle_devices_uninit unregisters every online core and
\* frees the storage without an invalid access; it neither tests nor
\* resets the pointer, so called with the pointer NULL or already freed
\* it reads records that are not there, and frees freed storage again.
C2_TeardownOnce ==
  last.op = "intel_idle_cpuidle_devices_uninit" =>
    IF last.before = "allocated"
      THEN /\ fault = {}
           /\ cpuidle_devices \cap cpu_online = {}
           /\ intel_idle_cpuidle_devices = "freed"
      ELSE /\ "invalid_read" \in fault
           /\ last.before = "freed" => "double_free" \in fault
           /\ intel_idle_cpuidle_devices = last.before

\* a teardown after a successful init unregistered the cores
C2_Witness ==
  /\ last.op = "intel_idle_cpuidle_devices_uninit"
  /\ last.before = "allocated"
  /\ \A c \in cpu_online : Called(<<"unregister", c, TRUE>>)
  /\ Cardinality(cpu_online) > 1
  /\ cpuidle_devices = {}

(***************************************************************************)
(* Module load and unload.  The source defines DEBUG (line 55): substates  *)
(* is a read-only module parameter and a non-zero value given at load      *)
(* time overrides the word CPUID reports.                                  *)
(***************************************************************************)
CPUID_MWAIT_LEAF == 5
CPUID5_ECX_EXTENSIONS_SUPPORTED == 1
CPUID5_ECX_INTERRUPT_BREAK == 2
\* the error of cpuidle_register_driver when a driver is registered already
EBUSY == 16

\* x86_model values of the switch of intel_idle_probe
NehalemModels == {26, 30, 31, 46}
WestmereModels == {37, 44}
AtomModels == {28, 38}

\* x & flag is non-zero, for a flag that is one bit
has_flag(x, flag) == (x \div flag) % 2 = 1

\* lapic_timer_reliable_states = 0xFFFFFFFF
ALL_STATES == 0..31

\* the driver is never disabled
probe_disabled_never(maxc) == FALSE

\* line 264: max_cstate == 0
probe_disabled(maxc) == maxc = 0

\* the word of CPUID whatever the parameter holds
probe_substates_cpuid(pre, edx) == edx

\* lines 284-286: if (substates == 0) substates = edx
probe_substates(pre, edx) == IF pre = Word(0, 0) THEN edx ELSE pre

\* intel_idle_probe() on the processor hw, with the globals of record cfg:
\* the globals it leaves, and ret
intel_idle_probe(cfg, hw) ==
  LET c1 == [cfg EXCEPT !.substates = probe_substates(@, hw.edx)]
      c2 == IF hw.arat
              THEN [c1 EXCEPT !.lapic_timer_reliable_states = ALL_STATES]
              ELSE c1
  IN  IF probe_disabled(cfg.max_cstate) THEN [cfg EXCEPT !.ret = 0 - EPERM]
      ELSE IF hw.x86_vendor # "X86_VENDOR_INTEL"
        THEN [cfg EXCEPT !.ret = 0 - ENODEV]
      ELSE IF ~hw.mwait THEN [cfg EXCEPT !.ret = 0 - ENODEV]
      ELSE IF hw.cpuid_level < CPUID_MWAIT_LEAF
        THEN [cfg EXCEPT !.ret = 0 - ENODEV]
      ELSE IF \/ ~has_flag(hw.ecx, CPUID5_ECX_EXTENSIONS_SUPPORTED)
              \/ ~has_flag(hw.ecx, CPUID5_ECX_INTERRUPT_BREAK)
        THEN [cfg EXCEPT !.ret = 0 - ENODEV]
      ELSE IF hw.x86 # 6 THEN [c2 EXCEPT !.ret = 0 - ENODEV]
      ELSE CASE hw.x86_model \in NehalemModels ->
                  [c2 EXCEPT !.lapic_timer_reliable_states = {1},
                             !.cpuidle_state_table = "nehalem_cstates",
                             !.choose_substate = "choose_tunable_substate",
                             !.ret = 0]
             [] hw.x86_model \in WestmereModels ->
                  [c2 EXCEPT !.cpuidle_state_table = "nehalem_cstates",
                             !.choose_substate = "choose_tunable_substate",
                             !.ret = 0]
             [] hw.x86_model \in AtomModels ->
                  [c2 EXCEPT !.lapic_timer_reliable_states = {1, 2},
                             !.cpuidle_state_table = "atom_cstates",
                             !.choose_substate = "choose_zero_substate",
                             !.ret = 0]
             [] OTHER -> [c2 EXCEPT !.ret = 0 - ENODEV]

\* cpuidle_register_driver(&intel_idle_driver): refused while another driver
\* is registered (line 429 names it)
cpuidle_register_driver(s) ==
  IF s.driver = "none"
    THEN [s EXCEPT !.driver = "intel_idle", !.ret = 0,
                   !.calls = Append(@, <<"register_driver", 0, TRUE>>)]
    ELSE [s EXCEPT !.ret = 0 - EBUSY,
                   !.calls = Append(@, <<"register_driver", 0, FALSE>>)]

\* cpuidle_unregister_driver(&intel_idle_driver)
cpuidle_unregister_driver(s) ==
  IF s.driver = "intel_idle"
    THEN [s EXCEPT !.driver = "none",
                   !.calls = Append(@, <<"unregister_driver", 0, TRUE>>)]
    ELSE [s EXCEPT !.calls = Append(@, <<"unregister_driver", 0, FALSE>>)]

\* the failure path of intel_idle_init that leaves the driver registered
devices_init_failed_keep_driver(d) == d

\* lines 435-438: intel_idle_cpuidle_devices_init failed
devices_init_failed(d) == [cpuidle_unregister_driver(d) EXCEPT !.ret = d.ret]

\* intel_idle_init(): cfg are the globals and s the lifecycle state before;
\* the result holds the globals and the lifecycle state after
intel_idle_init(s, cfg, hw, online, alloc_ok, fail) ==
  LET p == intel_idle_probe(cfg, hw)
  IN  IF p.ret # 0 THEN [cfg |-> p, life |-> [s EXCEPT !.ret = p.ret]]
      ELSE LET r == cpuidle_register_driver(s)
           IN  IF r.ret # 0 THEN [cfg |-> p, life |-> r]
               ELSE LET d == intel_idle_cpuidle_devices_init(
                               r, online,
                               dev_states(p.cpuidle_state_table, p.substates,
                                          p.max_cstate),
                               alloc_ok, fail)
                    IN  IF d.ret # 0
                          THEN [cfg |-> p, life |-> devices_init_failed(d)]
                          ELSE [cfg |-> p, life |-> d]

\* intel_idle_exit()
intel_idle_exit(s, online) ==
  cpuidle_unregister_driver(
    intel_idle_cpuidle_devices_uninit(s, online, FALSE))

(***************************************************************************)
(* SpecLoad: the module is loaded on any processor, with any parameters,   *)
(* and unloaded again.                                                     *)
(***************************************************************************)
\* the words CPUID leaf 5 reports in edx: 0x1120 and 0x21120
CpuidWords == {Word(4384, 0), Word(4384, 2)}

\* the substates parameter: not given, or 0x3120
SubstatesParams == {Word(0, 0), Word(12576, 0)}

\* the processors: every combination of what intel_idle_probe tests; model
\* 23 is the Core 2 Duo of the FUTURE_USE branch, 15 an older model
Processors ==
  [x86_vendor : {"X86_VENDOR_INTEL", "X86_VENDOR_AMD"},
   mwait : BOOLEAN,
   cpuid_level : {CPUID_MWAIT_LEAF - 1, CPUID_MWAIT_LEAF},
   ecx : 0..3,
   edx : CpuidWords,
   arat : BOOLEAN,
   x86 : {6, 15},
   x86_model : NehalemModels \cup WestmereModels \cup AtomModels \cup {23, 15}]

\* max_cstate given at load time
LoadMaxCstates == {0 - 1, 0, 2, MWAIT_MAX_NUM_CSTATES - 1}

\* the module before module_init: the globals as the loader leaves them
Unloaded ==
  /\ power_policy = 7
  /\ choose_substate = "NULL"
  /\ lapic_timer_reliable_states = {}
  /\ cpuidle_state_table = "NULL"
  /\ last = NoOp
  /\ RaceQuiet
  /\ IdleQuiet
  /\ KgdbQuiet
  /\ intel_idle_cpuidle_devices = "NULL"
  /\ percpu = [c \in Cpus |-> ZeroDev]
  /\ cpuidle_devices = {}
  /\ fault = {}
  /\ module_state = "unloaded"

LoadInit ==
  /\ Unloaded
  /\ max_cstate \in LoadMaxCstates
  /\ substates \in SubstatesParams
  /\ cpu_online \in {S \in SUBSET Cpus : 0 \in S}
  /\ cpuidle_curr_driver \in {"none", "other"}

\* the globals intel_idle_probe reads and writes, as a record
Globals ==
  [max_cstate |-> max_cstate, substates |-> substates,
   choose_substate |-> choose_substate,
   lapic_timer_reliable_states |-> lapic_timer_reliable_states,
   cpuidle_state_table |-> cpuidle_state_table, ret |-> 0]

\* module_init runs always, not once
can_init_always(st) == TRUE

\* module_init(intel_idle_init), line 451: the loader calls it once
can_init(st) == st = "unloaded"

\* the loader calls intel_idle_init on a processor of the set hws
ModuleInit(hws) ==
  /\ can_init(module_state)
  /\ fault = {}
  /\ \E hw \in hws, alloc_ok \in BOOLEAN,
        fail \in {{}} \cup {{k} : k \in cpu_online} :
       LET r == intel_idle_init(LifeState, Globals, hw, cpu_online,
                                alloc_ok, fail)
       IN  /\ substates' = r.cfg.substates
           /\ choose_substate' = r.cfg.choose_substate
           /\ lapic_timer_reliable_states' =
                r.cfg.lapic_timer_reliable_states
           /\ cpuidle_state_table' = r.cfg.cpuidle_state_table
           /\ intel_idle_cpuidle_devices' = r.life.ptr
           /\ percpu' = r.life.percpu
           /\ cpuidle_devices' = r.life.registry
           /\ fault' = r.life.fault
           /\ cpuidle_curr_driver' = r.life.driver
           /\ module_state' = IF r.life.ret = 0 THEN "live" ELSE "failed"
           /\ last' = [op |-> "intel_idle_init", ret |-> r.life.ret,
                       probe |-> r.cfg.ret, hw |-> hw, before |-> Globals,
                       driver_before |-> cpuidle_curr_driver,
                       calls |-> r.life.calls]
  /\ UNCHANGED <<max_cstate, power_policy, raceVars, idleVars, cpu_online,
                 kgdbVars>>

\* the loader calls intel_idle_exit; the framework has no core inside an
\* idle routine of the driver while it unregisters
ModuleExit ==
  /\ module_state = "live"
  /\ fault = {}
  /\ \A c \in IdleCpus : pc[c] = "idle"
  /\ LET r == intel_idle_exit(LifeState, cpu_online)
     IN  /\ intel_idle_cpuidle_devices' = r.ptr
         /\ percpu' = r.percpu
         /\ cpuidle_devices' = r.registry
         /\ fault' = r.fault
         /\ cpuidle_curr_driver' = r.driver
         /\ module_state' = "exited"
         /\ last' = [op |-> "intel_idle_exit", ret |-> 0,
                     before |-> intel_idle_cpuidle_devices,
                     calls |-> r.calls]
  /\ UNCHANGED <<cfgVars, raceVars, idleVars, cpu_online, kgdbVars>>

LoadModule == ModuleInit(Processors)

LoadNext == LoadModule \/ ModuleExit

SpecLoad == LoadInit /\ [][LoadNext]_vars

(***************************************************************************)
(* Claims about intel_idle_probe and intel_idle_init.                      *)
(***************************************************************************)
\* the last operation was intel_idle_init and its probe returned 0
ProbeSucceeded == last.op = "intel_idle_init" /\ last.probe = 0

\* the last operation was intel_idle_init and its probe returned an error
ProbeFailed == last.op = "intel_idle_init" /\ last.probe # 0

\* C11: whenever intel_idle_probe succeeds on a processor that has
\* X86_FEATURE_ARAT, every bit of lapic_timer_reliable_states is set, for
\* every model the probe accepts.
C11_AratAllBits ==
  (ProbeSucceeded /\ last.hw.arat) =>
    lapic_timer_reliable_states = ALL_STATES

(***************************************************************************)
(* SpecModule: the whole life of the loaded module.  After module_init    *)
(* the registered cores run intel_idle statement by statement, root       *)
(* writes power_policy, and the module is unloaded at any moment no core  *)
(* is inside intel_idle.  The policy functions are static and called from *)
(* intel_idle only (line 223).                                             *)
(***************************************************************************)
\* a processor that passes the checks of lines 269-282 or, with another
\* vendor, fails the first
Cpu(vendor, arat, model) ==
  [x86_vendor |-> vendor, mwait |-> TRUE, cpuid_level |-> CPUID_MWAIT_LEAF,
   ecx |-> 3, edx |-> Word(4384, 0), arat |-> arat, x86 |-> 6,
   x86_model |-> model]

\* a Core i7, an Atom with ARAT, and a processor of another vendor
ModuleProcessors ==
  {Cpu("X86_VENDOR_INTEL", FALSE, 26), Cpu("X86_VENDOR_INTEL", TRUE, 28),
   Cpu("X86_VENDOR_AMD", FALSE, 26)}

ModuleInitState ==
  /\ Unloaded
  /\ max_cstate = MWAIT_MAX_NUM_CSTATES - 1
  /\ substates = Word(0, 0)
  /\ cpu_online = Cpus
  /\ cpuidle_curr_driver = "none"

ModuleLoad == ModuleInit(ModuleProcessors)

\* the idle loop of a core whose device is registered runs intel_idle
ModuleIdle ==
  /\ module_state = "live"
  /\ \E c \in IdleCpus :
       /\ c \in cpuidle_devices
       /\ \/ IdleEnter(c)
          \/ IdleStep(c)
          \/ SetNeedResched(c)
          \/ ClearNeedResched(c)
          \/ Interrupt(c)

\* module_param(power_policy, int, 0644): root writes -1
ModuleWritePowerPolicy ==
  /\ module_state = "live"
  /\ power_policy # 0 - 1
  /\ power_policy' = 0 - 1
  /\ UNCHANGED <<max_cstate, substates, choose_substate,
                 lapic_timer_reliable_states, cpuidle_state_table, last,
                 raceVars, idleVars, lifeVars, kgdbVars>>

ModuleNext ==
  ModuleLoad \/ ModuleIdle \/ ModuleWritePowerPolicy \/ ModuleExit

SpecModule == ModuleInitState /\ [][ModuleNext]_vars

Unsupported(hw) ==
  \/ hw.x86_vendor # "X86_VENDOR_INTEL"
  \/ ~hw.mwait
  \/ hw.cpuid_level < 5
  \/ hw.ecx # 3
  \/ hw.x86 # 6
  \/ hw.x86_model \notin {26, 30, 31, 46, 37, 44, 28, 38}

\* C13: intel_idle_probe fails with -EPERM exactly when max_cstate is 0,
\* whatever the processor; otherwise with -ENODEV exactly when the vendor,
\* MWAIT, the CPUID level, the two extension bits, the family or the model
\* is not what it supports.  After a failed probe no catalog and no policy
\* is selected, and intel_idle_init returns the probe's error having made
\* no call to the framework or the allocator: the registered driver is the
\* one before, no core is registered, no storage is allocated.
C13_ProbeFailure ==
  last.op = "intel_idle_init" =>
    /\ last.probe = (IF last.before.max_cstate = 0 THEN 0 - EPERM
                     ELSE IF Unsupported(last.hw) THEN 0 - ENODEV
                     ELSE 0)
    /\ last.probe # 0 =>
         /\ cpuidle_state_table = "NULL"
         /\ choose_substate = "NULL"
         /\ last.ret = last.probe
         /\ last.calls = <<>>
         /\ cpuidle_curr_driver = last.driver_before
         /\ cpuidle_devices = {}
         /\ intel_idle_cpuidle_devices = "NULL"
         /\ module_state = "failed"

\* an Intel processor of family 6 with MWAIT and both extensions, of a model
\* the driver does not know, while no other driver is registered
C13_Witness ==
  /\ ProbeFailed
  /\ last.probe = 0 - ENODEV
  /\ last.hw.x86_vendor = "X86_VENDOR_INTEL"
  /\ last.hw.mwait
  /\ last.hw.cpuid_level = 5
  /\ last.hw.ecx = 3
  /\ last.hw.x86 = 6
  /\ last.hw.x86_model = 23
  /\ last.driver_before = "none"
  /\ cpuidle_curr_driver = "none"

(***************************************************************************)
(* Claims about the records intel_idle_cpuidle_devices_init fills.         *)
(***************************************************************************)
\* the selected catalog
Catalog == state_table(cpuidle_state_table)

\* the rows of a record come from the selected catalog
FromCatalog(st) ==
  \A k \in DOMAIN st :
    \E d \in 1..(MWAIT_MAX_NUM_CSTATES - 1) : Catalog[d] = st[k]

\* the index in the selected catalog of a row that is in it
depth_of(row) ==
  CHOOSE d \in 1..(MWAIT_MAX_NUM_CSTATES - 1) : Catalog[d] = row

\* C14: while the records of intel_idle_cpuidle_devices_init stand, in the
\* record of every online core the rows at positions 1..state_count-1 are
\* rows of the catalog in strictly increasing order of catalog index, for
\* every catalog, substates word and max_cstate.
C14_DepthMonotonic ==
  intel_idle_cpuidle_devices = "allocated" =>
    \A c \in cpu_online :
      LET st == percpu[c].states
      IN  /\ percpu[c].state_count = Len(st) + 1
          /\ FromCatalog(st)
          /\ \A j, k \in DOMAIN st :
               j < k => depth_of(st[j]) < depth_of(st[k])

\* the Atom catalog with depths 1 to 4 reported: the rows of depths 1, 2
\* and 4, in that order, depth 3 being a placeholder
C14_Witness ==
  /\ intel_idle_cpuidle_devices = "allocated"
  /\ cpuidle_state_table = "atom_cstates"
  /\ \E c \in cpu_online :
       /\ percpu[c].state_count = 4
       /\ percpu[c].states[1].name = "ATM-C1"
       /\ percpu[c].states[3].name = "ATM-C4"

\* the depths whose rows the record is to hold
ActiveDepths ==
  {d \in 1..(MWAIT_MAX_NUM_CSTATES - 1) :
     /\ d <= max_cstate
     /\ shr_nibble(substates, 4 * d) # 0
     /\ Catalog[d].enter # "NULL"}

\* C15: after intel_idle_cpuidle_devices_init returned 0, the record of
\* every online core holds exactly the catalog rows of the depths d with
\* 1 <= d <= min(max_cstate, 7), a non-zero substate count and a non-null
\* enter function, each once; state_count is one more than their number;
\* and all online cores hold the same rows.
C15_RecordContents ==
  (last.op = "intel_idle_cpuidle_devices_init" /\ last.ret = 0) =>
    \A c \in cpu_online :
      LET st == percpu[c].states
      IN  /\ percpu[c].state_count = 1 + Cardinality(ActiveDepths)
          /\ Len(st) = Cardinality(ActiveDepths)
          /\ \A d \in ActiveDepths :
               Cardinality({k \in DOMAIN st : st[k] = Catalog[d]}) = 1
          /\ \A k \in DOMAIN st :
               /\ \E d \in ActiveDepths : st[k] = Catalog[d]
               /\ st[k] # Catalog[0]
               /\ st[k].enter = "intel_idle"
          /\ percpu[c].cpu = c
          /\ \A o \in cpu_online : percpu[o].states = st

\* the Atom catalog with every depth reported and max_cstate 7: depth 6 is
\* disabled and left out, on more than one core
C15_Witness ==
  /\ last.op = "intel_idle_cpuidle_devices_init"
  /\ last.ret = 0
  /\ cpuidle_state_table = "atom_cstates"
  /\ max_cstate >= 6
  /\ shr_nibble(substates, 24) # 0
  /\ Cardinality(cpu_online) > 1
  /\ \A c \in cpu_online : percpu[c].state_count = 4

(***************************************************************************)
(* Claims about the unwind of a failed load.                               *)
(***************************************************************************)
\* the positions in the log of the last operation of the calls of one kind
\* for core i
CallsOf(kind, i) ==
  {n \in DOMAIN last.calls :
     last.calls[n][1] = kind /\ last.calls[n][2] = i}

\* registration failed for a core inside the last operation, an
\* intel_idle_cpuidle_devices_init
RegisterFailed ==
  /\ last.op = "intel_idle_cpuidle_devices_init"
  /\ \E k \in Cpus : Called(<<"register", k, FALSE>>)

\* C16 as stated: when registration of core k fails,
\* cpuidle_unregister_device is called once for each core registered
\* before and for no other core (not for k, not for the cores after k),
\* and the storage is freed once.
C16_ExactUnwind ==
  RegisterFailed =>
    /\ \A i \in Cpus :
         Cardinality(CallsOf("unregister", i)) =
           (IF Called(<<"register", i, TRUE>>) THEN 1 ELSE 0)
    /\ Cardinality(CallsOf("free", 0)) = 1
    /\ fault = {}

\* C16 amended: when registration of core k fails,
\* cpuidle_unregister_device is called once for every online core, k and
\* the cores after k included; the call removes a device exactly for the
\* cores registered before and finds the record of the others
\* unregistered; then the storage is freed once, with no invalid access.
C16_UnwindEveryOnline ==
  RegisterFailed =>
    /\ \A i \in Cpus :
         /\ Cardinality(CallsOf("unregister", i)) =
              (IF i \in cpu_online THEN 1 ELSE 0)
         /\ Called(<<"unregister", i, TRUE>>) <=>
              Called(<<"register", i, TRUE>>)
         /\ \A n \in CallsOf("unregister", i), m \in CallsOf("register", i) :
              m < n
    /\ Cardinality(CallsOf("free", 0)) = 1
    /\ Called(<<"free", 0, TRUE>>)
    /\ last.calls[Len(last.calls)] = <<"free", 0, TRUE>>
    /\ fault = {}

\* three cores online, registration of the second failed: the framework
\* was called for all three, and removed the device of the first only
C16_Witness ==
  /\ RegisterFailed
  /\ cpu_online = {0, 1, 2}
  /\ Called(<<"register", 1, FALSE>>)
  /\ Called(<<"unregister", 0, TRUE>>)
  /\ Called(<<"unregister", 1, FALSE>>)
  /\ Called(<<"unregister", 2, FALSE>>)
  /\ CallsOf("register", 2) = {}

\* C17: whenever intel_idle_init fails after its probe succeeded (the
\* framework refused the driver, alloc_percpu failed, or a core's
\* registration failed), intel_idle is not the registered driver, no core
\* is registered and no per-core storage is allocated, the same after an
\* allocation failure as after a registration failure; whenever it
\* returns 0, the driver and every online core are registered.
C17_NoPartialActivation ==
  ProbeSucceeded =>
    IF last.ret = 0
      THEN /\ cpuidle_curr_driver = "intel_idle"
           /\ cpuidle_devices = cpu_online
           /\ intel_idle_cpuidle_devices = "allocated"
           /\ \A c \in cpu_online : percpu[c].registered
           /\ module_state = "live"
      ELSE /\ cpuidle_curr_driver = last.driver_before
           /\ cpuidle_curr_driver # "intel_idle"
           /\ cpuidle_devices = {}
           /\ intel_idle_cpuidle_devices # "allocated"
           /\ fault = {}
           /\ module_state = "failed"
           /\ last.ret =
                (IF Called(<<"register_driver", 0, FALSE>>) THEN 0 - EBUSY
                 ELSE IF Called(<<"alloc", 0, FALSE>>) THEN 0 - ENOMEM
                 ELSE 0 - EIO)
           /\ last.ret = 0 - EIO <=>
                \E k \in cpu_online : Called(<<"register", k, FALSE>>)

\* registration of the second of three cores failed: the first core was
\* unregistered again, then the driver
C17_Witness ==
  /\ ProbeSucceeded
  /\ last.ret = 0 - EIO
  /\ cpu_online = {0, 1, 2}
  /\ Called(<<"register_driver", 0, TRUE>>)
  /\ Called(<<"register", 0, TRUE>>)
  /\ Called(<<"register", 1, FALSE>>)
  /\ Called(<<"unregister", 0, TRUE>>)
  /\ Called(<<"unregister_driver", 0, TRUE>>)
  /\ cpuidle_curr_driver = "none"

\* C18 as stated: intel_idle_probe records the substates word (that of
\* CPUID, or a non-zero parameter, which is kept) and sets bits of
\* lapic_timer_reliable_states only when it succeeds; after a probe that
\* failed, both hold what they held before it.
C18_RecordsOnlyOnSuccess ==
  /\ ProbeSucceeded =>
       substates = (IF last.before.substates = Word(0, 0)
                      THEN last.hw.edx ELSE last.before.substates)
  /\ ProbeFailed =>
       /\ substates = last.before.substates
       /\ lapic_timer_reliable_states =
            last.before.lapic_timer_reliable_states

\* the probe got as far as reading CPUID leaf 5 and found both extensions
LeafAccepted ==
  /\ last.before.max_cstate # 0
  /\ last.hw.x86_vendor = "X86_VENDOR_INTEL"
  /\ last.hw.mwait
  /\ last.hw.cpuid_level >= 5
  /\ last.hw.ecx = 3

\* C18 amended: intel_idle_probe records the substates word and the ARAT
\* mask as soon as CPUID leaf 5 is accepted, before it tests the family
\* and the model.  A probe that fails earlier (max_cstate 0, vendor, MWAIT,
\* CPUID level, extension bits) leaves both as they were; a probe that
\* fails on the family or the model has already stored the substates word
\* (that of CPUID, or the non-zero parameter) and, with ARAT, the all-ones
\* mask.  A probe that succeeds leaves the same substates word, and the
\* mask of its model: bit 1, bits 1 and 2, or for 0x25 and 0x2C the ARAT
\* mask.
C18_RecordsAfterLeaf ==
  last.op = "intel_idle_init" =>
    LET b == last.before
        arat_mask == IF last.hw.arat THEN 0..31
                     ELSE b.lapic_timer_reliable_states
    IN  /\ substates =
             (IF LeafAccepted /\ b.substates = Word(0, 0)
                THEN last.hw.edx ELSE b.substates)
        /\ lapic_timer_reliable_states =
             (IF ~LeafAccepted THEN b.lapic_timer_reliable_states
              ELSE IF last.probe # 0 THEN arat_mask
              ELSE IF last.hw.x86_model \in {26, 30, 31, 46} THEN {1}
              ELSE IF last.hw.x86_model \in {28, 38} THEN {1, 2}
              ELSE arat_mask)
        /\ (ProbeFailed /\ LeafAccepted) =>
             (last.hw.x86 # 6
                \/ last.hw.x86_model \notin {26, 30, 31, 46, 37, 44, 28, 38})

\* a probe failed on the family of a processor with ARAT: the word of
\* CPUID and the all-ones mask were stored all the same
C18_Witness ==
  /\ ProbeFailed
  /\ last.hw.x86 = 15
  /\ last.hw.arat
  /\ last.before.substates = Word(0, 0)
  /\ last.before.lapic_timer_reliable_states = {}
  /\ substates = last.hw.edx
  /\ lapic_timer_reliable_states = 0..31

(***************************************************************************)
(* Claims about the catalogs.                                              *)
(***************************************************************************)
\* C19: whichever catalog the probe selected, nehalem_cstates or
\* atom_cstates, for every named row of it the cstate intel_idle derives
\* from the row's driver_data (line 221) is the row's index in the catalog.
C19_IndexIsDepth ==
  \A i \in 1..(MWAIT_MAX_NUM_CSTATES - 1) :
    Catalog[i].name # "" => hint_cstate(Catalog[i].driver_data) = i

(***************************************************************************)
(* SpecHotplug: the module is loaded and unloaded while cores go offline   *)
(* and come online.  The driver has no hotplug callback ("Known            *)
(* limitations", lines 37-44): a core's device stays with the framework    *)
(* when the core goes offline, and a core that comes online gets none.     *)
(* The boot core stays online.                                             *)
(***************************************************************************)
HotplugInit ==
  /\ Unloaded
  /\ max_cstate \in LoadMaxCstates
  /\ substates = Word(0, 0)
  /\ cpu_online \in {S \in SUBSET Cpus : 0 \in S}
  /\ cpuidle_curr_driver = "none"

HotplugLoad == ModuleInit(ModuleProcessors)

\* core c goes offline
CpuDown ==
  \E c \in cpu_online \ {0} :
    /\ cpu_online' = cpu_online \ {c}
    /\ UNCHANGED <<cfgVars, last, raceVars, idleVars, kgdbVars,
                   intel_idle_cpuidle_devices, percpu, cpuidle_devices,
                   fault, cpuidle_curr_driver, module_state>>

\* core c comes online
CpuUp ==
  \E c \in Cpus \ cpu_online :
    /\ cpu_online' = cpu_online \cup {c}
    /\ UNCHANGED <<cfgVars, last, raceVars, idleVars, kgdbVars,
                   intel_idle_cpuidle_devices, percpu, cpuidle_devices,
                   fault, cpuidle_curr_driver, module_state>>

HotplugNext == HotplugLoad \/ ModuleExit \/ CpuDown \/ CpuUp

SpecHotplug == HotplugInit /\ [][HotplugNext]_vars

\* C20: after intel_idle_exit, which follows a successful intel_idle_init,
\* no core is registered with the framework (so no registered device lies
\* in the freed storage) and no invalid access was made, whichever cores
\* went offline or came online in between.
C20_TeardownUnderHotplug ==
  last.op = "intel_idle_exit" =>
    /\ cpuidle_devices = {}
    /\ \A c \in Cpus : ~percpu[c].registered
    /\ fault = {}

(***************************************************************************)
(* The breakpoint traps of kgdb on ARM (arch/arm/kernel/kgdb.c).  The      *)
(* undef hooks kgdb_brk_fn and kgdb_compiled_brk_fn call                   *)
(* kgdb_handle_exception, the debugger core, which reads commands and      *)
(* hands each to kgdb_arch_handle_exception until one returns 0, or        *)
(* returns without reading any.                                            *)
(***************************************************************************)
\* the hex digits after the command letter are at most MaxHexDigits
MaxHexDigits == 2

\* w + n modulo 2^32, for 0 <= n < 2^16
add_u32(w, n) ==
  IF w.lo + n >= Pow2(16)
    THEN Word(w.lo + n - Pow2(16), (w.hi + 1) % Pow2(16))
    ELSE Word(w.lo + n, w.hi)

\* the number the hex digits ds spell, most significant first
RECURSIVE hex_value(_, _)
hex_value(ds, acc) ==
  IF ds = <<>> THEN acc ELSE hex_value(Tail(ds), acc * 16 + Head(ds))

\* kgdb_hex2long(&ptr, &addr) on the text after the command letter, given
\* as its leading hex digits: the number of digits read, and the value
kgdb_hex2long(ds) == [num |-> Len(ds), addr |-> Word(hex_value(ds, 0), 0)]

\* kgdb_arch_handle_exception() for the command letter cmd followed by the
\* hex digits ds, with linux_regs->ARM_pc = regs_pc and compiled_break =
\* flag
kgdb_arch_handle_exception(cmd, ds, regs_pc, flag) ==
  IF cmd \in {"D", "k", "c"}
    THEN LET h == kgdb_hex2long(ds)
         IN  [ret |-> 0,
              ARM_pc |-> IF h.num # 0 THEN h.addr
                         ELSE IF flag = 1 THEN add_u32(regs_pc, 4)
                         ELSE regs_pc,
              compiled_break |-> 0]
    ELSE [ret |-> 0 - 1, ARM_pc |-> regs_pc, compiled_break |-> flag]

(***************************************************************************)
(* SpecKgdb: breakpoint traps, and the commands of the debugger while a    *)
(* trap is handled.                                                        *)
(***************************************************************************)
\* the addresses of the breakpoint instructions hit: 0xC0008000 and the
\* last word of the address space
TrapAddrs == {Word(32768, 49152), Word(65532, 65535)}

\* command letters: the three that resume, step, read registers, status
Commands == {"c", "D", "k", "s", "g", "?"}

HexDigits == {0, 4, 15}

\* the digit strings that follow a command letter
HexArgs ==
  UNION {[1..n -> HexDigits] : n \in 0..MaxHexDigits}

KgdbInit ==
  /\ Unloaded
  /\ max_cstate = MWAIT_MAX_NUM_CSTATES - 1
  /\ substates = Word(0, 0)
  /\ cpu_online = Cpus
  /\ cpuidle_curr_driver = "none"

KgdbFrame == UNCHANGED <<cfgVars, raceVars, idleVars, lifeVars>>

\* the undef hook fn is entered for the breakpoint instruction at an
\* address of TrapAddrs, and calls kgdb_handle_exception
KgdbTrap(fn, flag) ==
  /\ kgdb_fn = "none"
  /\ \E a \in TrapAddrs : ARM_pc' = a
  /\ compiled_break' = flag
  /\ kgdb_fn' = fn
  /\ last' = [op |-> fn]
  /\ KgdbFrame

\* kgdb_brk_fn, lines 140-145
KgdbBrk == KgdbTrap("kgdb_brk_fn", compiled_break)

\* kgdb_compiled_brk_fn, lines 147-153
KgdbCompiledBrk == KgdbTrap("kgdb_compiled_brk_fn", 1)

\* the core hands a command to kgdb_arch_handle_exception; on 0 it leaves
\* the trap
KgdbCommand ==
  /\ kgdb_fn # "none"
  /\ \E cmd \in Commands, ds \in HexArgs :
       LET r == kgdb_arch_handle_exception(cmd, ds, ARM_pc, compiled_break)
       IN  /\ ARM_pc' = r.ARM_pc
           /\ compiled_break' = r.compiled_break
           /\ kgdb_fn' = IF r.ret = 0 THEN "none" ELSE kgdb_fn
           /\ last' = [op |-> "kgdb_arch_handle_exception", cmd |-> cmd,
                       arg |-> ds, ret |-> r.ret, pc |-> ARM_pc,
                       flag |-> compiled_break, fn |-> kgdb_fn]
  /\ KgdbFrame

\* kgdb_handle_exception returns to the hook without a resuming command
\* (no debugger attached, or a trap taken inside the debugger)
KgdbReturn ==
  /\ kgdb_fn # "none"
  /\ kgdb_fn' = "none"
  /\ last' = [op |-> "kgdb_handle_exception"]
  /\ UNCHANGED <<compiled_break, ARM_pc>>
  /\ KgdbFrame

KgdbNext == KgdbBrk \/ KgdbCompiledBrk \/ KgdbCommand \/ KgdbReturn

SpecKgdb == KgdbInit /\ [][KgdbNext]_vars

\* C21: for every sequence of traps and commands, a command 'c', 'D' or
\* 'k' returns 0 and clears compiled_break; without an address it adds 4
\* to ARM_pc if the trap being handled is a compiled breakpoint and leaves
\* ARM_pc alone if it is not; with an address it sets ARM_pc to the
\* address.  Any other command returns -1 and changes neither ARM_pc nor
\* compiled_break.
C21_ResumeAdvance ==
  last.op = "kgdb_arch_handle_exception" =>
    IF last.cmd \in {"c", "D", "k"}
      THEN /\ last.ret = 0
           /\ compiled_break = 0
           /\ ARM_pc =
                (IF last.arg # <<>> THEN Word(hex_value(last.arg, 0), 0)
                 ELSE IF last.fn = "kgdb_compiled_brk_fn"
                   THEN add_u32(last.pc, 4)
                 ELSE last.pc)
      ELSE /\ last.ret = 0 - 1
           /\ ARM_pc = last.pc
           /\ compiled_break = last.flag

=============================================================================
